---------------------------- MODULE Spec2Model ----------------------------
(***************************************************************************)
(* Model of the Algorithm Complexity Checker (src/main.py): the cli        *)
(* pipeline data acquisition -> complexity_phase -> regression_phase ->    *)
(* predict_phase, and the numeric classifier complexity_phase.             *)
(*                                                                         *)
(* Floating-point values are modelled as exact rationals plus the IEEE     *)
(* specials the code can produce (nan, +inf).  np.log2 is irrational on    *)
(* non powers of two and is modelled by a rational table (twelfths).       *)
(***************************************************************************)
EXTENDS Integers, Sequences, FiniteSets, TLC

VARIABLES
    src,          \* the records of the input file
    pos,          \* number of records read so far
    x_value,      \* option -x: None or an integer
    sample_count, \* option --sample-count
    x_values,     \* sizes read so far
    y_values,     \* durations read so far
    pc,           \* position of cli
    res,          \* the least-squares results of complexity_phase (its level-1 message)
    complexity,   \* label returned by complexity_phase, NoLabel before
    popt,         \* parameters returned by regression_phase, None before
    calls,        \* the phase functions called so far, with their arguments
    output        \* the level-0 messages printed so far

vars == <<src, pos, x_value, sample_count, x_values, y_values, pc, res,
          complexity, popt, calls, output>>

\* None, for an option not given and for parameters not yet fitted.
None == <<>>

\* No label yet.
NoLabel == "None"

----------------------------------------------------------------------------
\* Bounds of the model.

MaxSize == 3
MaxDuration == 2
MaxLen == 2
MaxSamples == 3
MaxLines == 3
MaxX == 1
MaxScale == 3

----------------------------------------------------------------------------
\* Floating-point values: a rational n/d in lowest terms (d > 0), nan, +inf.

RECURSIVE Gcd(_, _)
Gcd(a, b) == IF b = 0 THEN a ELSE Gcd(b, a % b)

Abs(n) == IF n < 0 THEN -n ELSE n

Q(n, d) ==
    LET g == Gcd(Abs(n), d)
    IN  [k |-> "num", n |-> n \div g, d |-> d \div g]

NaN == [k |-> "nan", n |-> 0, d |-> 1]
Inf == [k |-> "inf", n |-> 0, d |-> 1]

\* a/b < c/d for b, d > 0, by comparing integer parts and then the
\* reciprocals of the remainders (no products, so no overflow).
RECURSIVE RatLess(_, _, _, _)
RatLess(a, b, c, d) ==
    LET qa == a \div b
        qc == c \div d
        ra == a % b
        rc == c % d
    IN  IF qa # qc THEN qa < qc
        ELSE IF rc = 0 THEN FALSE
        ELSE IF ra = 0 THEN TRUE
        ELSE RatLess(d, rc, b, ra)

\* IEEE comparison a < b: False whenever an operand is nan.
FLess(a, b) ==
    CASE a.k = "nan" \/ b.k = "nan" -> FALSE
      [] a.k = "inf" -> FALSE
      [] b.k = "inf" -> TRUE
      [] OTHER -> RatLess(a.n, a.d, b.n, b.d)

FAdd(a, b) ==
    CASE a.k = "nan" \/ b.k = "nan" -> NaN
      [] a.k = "inf" \/ b.k = "inf" -> Inf
      [] OTHER ->
            LET g == Gcd(a.d, b.d)
            IN  Q(a.n * (b.d \div g) + b.n * (a.d \div g), a.d * (b.d \div g))

\* a - b; b is never +inf here (only norm_y can be infinite).
FSub(a, b) ==
    CASE a.k = "nan" \/ b.k = "nan" -> NaN
      [] a.k = "inf" /\ b.k = "num" -> Inf
      [] a.k = "num" /\ b.k = "num" ->
            LET g == Gcd(a.d, b.d)
            IN  Q(a.n * (b.d \div g) - b.n * (a.d \div g), a.d * (b.d \div g))

FMul(a, b) ==
    CASE a.k = "nan" \/ b.k = "nan" -> NaN
      [] a.k = "inf" /\ b.k = "inf" -> Inf
      [] a.k = "num" /\ b.k = "num" -> Q(a.n * b.n, a.d * b.d)

\* a / b for finite operands: x/0 is nan for x = 0 and +inf for x > 0.
FDiv(a, b) ==
    CASE a.k = "nan" \/ b.k = "nan" -> NaN
      [] a.k = "num" /\ b.k = "num" /\ b.n = 0 /\ a.n = 0 -> NaN
      [] a.k = "num" /\ b.k = "num" /\ b.n = 0 /\ a.n > 0 -> Inf
      [] a.k = "num" /\ b.k = "num" /\ b.n > 0 -> Q(a.n * b.d, a.d * b.n)
      [] a.k = "num" /\ b.k = "num" /\ b.n < 0 -> Q(-(a.n * b.d), a.d * (-b.n))
      [] a.k = "inf" /\ b.k = "num" /\ b.n > 0 -> Inf

\* np.min / np.max / min of a non-empty sequence of finite values.
RECURSIVE FMinFrom(_, _, _)
FMinFrom(s, i, best) ==
    IF i > Len(s) THEN best
    ELSE FMinFrom(s, i + 1, IF FLess(s[i], best) THEN s[i] ELSE best)

FMin(s) == FMinFrom(s, 2, s[1])

RECURSIVE FMaxFrom(_, _, _)
FMaxFrom(s, i, best) ==
    IF i > Len(s) THEN best
    ELSE FMaxFrom(s, i + 1, IF FLess(best, s[i]) THEN s[i] ELSE best)

FMax(s) == FMaxFrom(s, 2, s[1])

IntMin(s) == CHOOSE m \in {s[i] : i \in 1..Len(s)} : \A i \in 1..Len(s) : m <= s[i]
IntMax(s) == CHOOSE m \in {s[i] : i \in 1..Len(s)} : \A i \in 1..Len(s) : m >= s[i]

----------------------------------------------------------------------------
\* numpy helpers used by complexity_phase.

\* np.log2(v) as a rational: exact on powers of two, rounded to twelfths
\* elsewhere (log2(3) ~ 19/12, log2(5) ~ 28/12, ...).
Log2(v) == Q(<<0, 12, 19, 24, 28, 31, 34, 36>>[v], 12)

\* A function on 1..n as a sequence, its elements evaluated once.
Array(f) == SubSeq(f, 1, Len(f))

RECURSIVE Pow(_, _)
Pow(b, e) == IF e = 0 THEN 1 ELSE b * Pow(b, e - 1)

\* np.linspace(start, stop, num, dtype=int) for 0 < start <= stop: num
\* evenly spaced values, each truncated to an integer, the last one set to
\* stop itself; a single sample is start.
Linspace(start, stop, num) ==
    Array([i \in 1..num |->
        IF num = 1 THEN start
        ELSE IF i = num THEN stop
        ELSE start + ((i - 1) * (stop - start)) \div (num - 1)])

\* The search np.interp runs for each key over xp (0-based result): Len(xp)
\* when the key is beyond the last element, -1 when it is before the first,
\* else a linear scan for the first element greater than the key (numpy
\* scans linearly up to 4 points; xp is not checked to be increasing).
RECURSIVE LinearScan(_, _, _)
LinearScan(key, arr, i) ==
    IF i < Len(arr) /\ key >= arr[i + 1] THEN LinearScan(key, arr, i + 1)
    ELSE i - 1

BinarySearch(key, arr) ==
    CASE key > arr[Len(arr)] -> Len(arr)
      [] key <= arr[Len(arr)] /\ key < arr[1] -> -1
      [] key <= arr[Len(arr)] /\ key >= arr[1] /\ Len(arr) <= 4 ->
            LinearScan(key, arr, 1)

\* np.interp(x, xp, fp) at one point: piecewise-linear interpolation, the
\* end values outside the range of xp.
InterpAt(key, xp, fp) ==
    IF Len(xp) = 1 THEN fp[1]
    ELSE LET j == BinarySearch(key, xp)
         IN  IF j = -1 THEN fp[1]
             ELSE IF j = Len(xp) THEN fp[Len(fp)]
             ELSE IF j = Len(xp) - 1 THEN fp[j + 1]
             ELSE IF xp[j + 1] = key THEN fp[j + 1]
             ELSE LET slope == FDiv(FSub(fp[j + 2], fp[j + 1]),
                                    Q(xp[j + 2] - xp[j + 1], 1))
                  IN  FAdd(FMul(slope, Q(key - xp[j + 1], 1)), fp[j + 1])

Interp(x, xp, fp) == Array([i \in 1..Len(x) |-> InterpAt(x[i], xp, fp)])

----------------------------------------------------------------------------
\* The complexity catalog.

\* REGRESSION_FUNCTIONS: its keys in order, with the number of free
\* parameters of each raw function.
REGRESSION_FUNCTIONS ==
    << [label |-> "O(1)",         nparams |-> 1],
       [label |-> "O(log n)",     nparams |-> 2],
       [label |-> "O(n)",         nparams |-> 2],
       [label |-> "O(n log n)",   nparams |-> 2],
       [label |-> "O(n^2)",       nparams |-> 2],
       [label |-> "O(n^2 log n)", nparams |-> 2],
       [label |-> "O(n^3)",       nparams |-> 2],
       [label |-> "O(2^n)",       nparams |-> 2] >>

RegressionLabels ==
    {REGRESSION_FUNCTIONS[i].label : i \in 1..Len(REGRESSION_FUNCTIONS)}

\* REGRESSION_FUNCTIONS[label][0](x, a, b)
RawFunction(label, x, a, b) ==
    CASE label = "O(1)"         -> a
      [] label = "O(log n)"     -> FAdd(a, FMul(b, Log2(x)))
      [] label = "O(n)"         -> FAdd(a, FMul(b, Q(x, 1)))
      [] label = "O(n log n)"   -> FAdd(a, FMul(b, FMul(Q(x, 1), Log2(x))))
      [] label = "O(n^2)"       -> FAdd(a, FMul(b, Q(Pow(x, 2), 1)))
      [] label = "O(n^2 log n)" -> FAdd(a, FMul(b, FMul(Q(Pow(x, 2), 1), Log2(x))))
      [] label = "O(n^3)"       -> FAdd(a, FMul(b, Q(Pow(x, 3), 1)))
      [] label = "O(2^n)"       -> FAdd(a, FMul(b, Q(Pow(2, x), 1)))

\* The keys of the classifier's own table, in insertion order.
ComplexityLabels ==
    << "O(1)", "O(log n)", "O(n)", "O(n log n)", "O(n^2)", "O(n^2 log n)",
       "O(n^3)", "O(2^n)" >>

\* The normalized shape of a label at sample index v.
Func(label, v) ==
    CASE label = "O(1)"         -> Q(1, 1)
      [] label = "O(log n)"     -> Log2(v)
      [] label = "O(n)"         -> Q(v, 1)
      [] label = "O(n log n)"   -> FMul(Q(v, 1), Log2(v))
      [] label = "O(n^2)"       -> Q(Pow(v, 2), 1)
      [] label = "O(n^2 log n)" -> FMul(Q(Pow(v, 2), 1), Log2(v))
      [] label = "O(n^3)"       -> Q(Pow(v, 3), 1)
      [] label = "O(2^n)"       -> Q(Pow(2, v), 1)

\* Mutant of Coef: the constant of O(n^2 log n) lacks the logarithm.
CoefNoLog(label, samples) ==
    CASE label = "O(1)"         -> Q(2, 1)
      [] label = "O(log n)"     -> Log2(samples)
      [] label = "O(n)"         -> Q(samples, 1)
      [] label = "O(n log n)"   -> FMul(Q(samples, 1), Log2(samples))
      [] label = "O(n^2)"       -> Q(Pow(samples, 2), 1)
      [] label = "O(n^2 log n)" -> Q(Pow(samples, 2), 1)
      [] label = "O(n^3)"       -> Q(Pow(samples, 3), 1)
      [] label = "O(2^n)"       -> Q(Pow(2, samples), 1)

\* The normalization constant of a label.
Coef(label, samples) ==
    CASE label = "O(1)"         -> Q(2, 1)
      [] label = "O(log n)"     -> Log2(samples)
      [] label = "O(n)"         -> Q(samples, 1)
      [] label = "O(n log n)"   -> FMul(Q(samples, 1), Log2(samples))
      [] label = "O(n^2)"       -> Q(Pow(samples, 2), 1)
      [] label = "O(n^2 log n)" -> FMul(Q(Pow(samples, 2), 1), Log2(samples))
      [] label = "O(n^3)"       -> Q(Pow(samples, 3), 1)
      [] label = "O(2^n)"       -> Q(Pow(2, samples), 1)

----------------------------------------------------------------------------
\* complexity_phase.

\* yy: the durations resampled on the integer grid xx.
Resampled(x, y, samples) ==
    Interp(Linspace(IntMin(x), IntMax(x), samples), x, y)

\* Mutant of NormY: the division by the range is left out.
NormYNoRange(x, y, samples) ==
    LET yy == Resampled(x, y, samples)
        low == FMin(y)
    IN  Array([i \in 1..samples |-> FSub(yy[i], low)])

\* norm_y = (yy - min(y)) / (max_y - min_y)
NormY(x, y, samples) ==
    LET yy == Resampled(x, y, samples)
        range == FSub(FMax(yy), FMin(yy))
        low == FMin(y)
    IN  Array([i \in 1..samples |-> FDiv(FSub(yy[i], low), range)])

\* np.sum(np.power(norm_y - func(norm_x) / coef, 2)) with norm_x = 1..samples
RECURSIVE SumSquares(_, _, _, _)
SumSquares(label, norm_y, samples, i) ==
    IF i = 0 THEN Q(0, 1)
    ELSE LET r == FSub(norm_y[i], FDiv(Func(label, i), Coef(label, samples)))
         IN  FAdd(SumSquares(label, norm_y, samples, i - 1), FMul(r, r))

\* res: the (label, z) pairs in table order.
LeastSquares(x, y, samples) ==
    LET norm_y == NormY(x, y, samples)
    IN  Array([c \in 1..Len(ComplexityLabels) |->
            <<ComplexityLabels[c],
              SumSquares(ComplexityLabels[c], norm_y, samples, samples)>>])

\* Mutant of MinByKey: a later element replaces the best one unless the
\* best one is strictly less (the last minimum wins).
RECURSIVE MinByKeyLast(_, _, _)
MinByKeyLast(r, i, best) ==
    IF i > Len(r) THEN best
    ELSE MinByKeyLast(r, i + 1, IF FLess(best[2], r[i][2]) THEN best ELSE r[i])

\* min(res, key=lambda a: a[1]): the first element is kept until a later
\* one compares strictly less.
RECURSIVE MinByKey(_, _, _)
MinByKey(r, i, best) ==
    IF i > Len(r) THEN best
    ELSE MinByKey(r, i + 1, IF FLess(r[i][2], best[2]) THEN r[i] ELSE best)

\* Mutant of MinLabel: a hand-written minimum that starts from no label
\* and +inf, and so keeps no label when no residual is below +inf.
MinLabelFromInf(r) == MinByKey(r, 1, <<NoLabel, Inf>>)[1]

\* The label complexity_phase returns for the results r.
MinLabel(r) == MinByKey(r, 2, r[1])[1]

ComplexityPhase(x, y, samples) == MinLabel(LeastSquares(x, y, samples))

----------------------------------------------------------------------------
\* regression_phase and predict_phase.

NParams(label) ==
    LET e == CHOOSE r \in {REGRESSION_FUNCTIONS[i] : i \in 1..Len(REGRESSION_FUNCTIONS)} :
                 r.label = label
    IN  e.nparams

\* The parameter vector curve_fit returns: one entry per free parameter
\* (the fitted values themselves are not modelled).
FittedParameters(label) == [i \in 1..NParams(label) |-> "fitted"]

----------------------------------------------------------------------------
\* cli.

\* A field of a record, as int() and float() see it: an integer literal
\* (both accept it), a decimal literal (only float() accepts it) or any
\* other text (both raise ValueError).
IntField(v) == [kind |-> "int", v |-> Q(v, 1)]
FloatField(n, d) == [kind |-> "float", v |-> Q(n, d)]
TextField == [kind |-> "text", v |-> NaN]

\* The records of the scenario "1 0.5", "2 1.0", "4 2.0", "8 4.0".
ScenarioLines ==
    << <<IntField(1), FloatField(1, 2)>>, <<IntField(2), FloatField(1, 1)>>,
       <<IntField(4), FloatField(2, 1)>>, <<IntField(8), FloatField(4, 1)>> >>

\* Records that do not parse: a missing field, an extra field, a size that
\* is no integer literal, a duration that is no number.
MalformedLines ==
    { <<IntField(1)>>,
      <<IntField(1), FloatField(1, 2), FloatField(1, 2)>>,
      <<FloatField(1, 2), FloatField(1, 2)>>,
      <<IntField(1), TextField>> }

Lines == {ScenarioLines[i] : i \in 1..Len(ScenarioLines)} \cup MalformedLines

\* -x is absent (None) or an integer <<v>>.
XValues == {None} \cup {<<v>> : v \in 0..MaxX}

\* The sample sets the classifier is run on: every sequence of up to MaxLen
\* (size, duration) pairs, in any order, and every series of durations at
\* the sizes 1..MaxSize.
Pairs == (1..MaxSize) \X (0..MaxDuration)

Series ==
    {[i \in 1..MaxSize |-> <<i, d[i]>>] : d \in [1..MaxSize -> 0..MaxDuration]}

SampleSets ==
    UNION {[1..n -> Pairs] : n \in 0..MaxLen} \cup Series

Sizes(s) == [i \in 1..Len(s) |-> s[i][1]]
Durations(s) == [i \in 1..Len(s) |-> Q(s[i][2], 1)]

\* The records a sample set is read from.
LinesOf(s) ==
    [i \in 1..Len(s) |-> <<IntField(s[i][1]), IntField(s[i][2])>>]

Init ==
    /\ src \in UNION {[1..n -> Lines] : n \in 0..MaxLines}
    /\ pos = 0
    /\ x_value \in XValues
    /\ sample_count \in 1..MaxSamples
    /\ x_values = <<>>
    /\ y_values = <<>>
    /\ pc = "acquire"
    /\ res = <<>>
    /\ complexity = NoLabel
    /\ popt = None
    /\ calls = <<>>
    /\ output = <<>>

\* The state of cli when the last record has been read.
InitAcquired ==
    /\ x_value = None
    /\ \/ /\ sample_count \in 1..MaxSamples
          /\ \E s \in SampleSets :
                /\ src = LinesOf(s)
                /\ x_values = Sizes(s)
                /\ y_values = Durations(s)
       \/ /\ sample_count = 4
          /\ src = ScenarioLines
          /\ x_values = [i \in 1..Len(ScenarioLines) |-> ScenarioLines[i][1].v.n]
          /\ y_values = [i \in 1..Len(ScenarioLines) |-> ScenarioLines[i][2].v]
    /\ pos = Len(src)
    /\ pc = "acquire"
    /\ res = <<>>
    /\ complexity = NoLabel
    /\ popt = None
    /\ calls = <<>>
    /\ output = <<>>

\* a, b = line.split(delimiter)
SplitsInTwo(line) == Len(line) = 2

\* The record the loop reads next.
Line == src[pos + 1]

\* One pass of the loop: the record splits into two fields, int(a) and
\* float(b) succeed, and both values are appended.
ReadLine ==
    /\ pc = "acquire"
    /\ pos < Len(src)
    /\ SplitsInTwo(Line)
    /\ Line[1].kind = "int"
    /\ Line[2].kind \in {"int", "float"}
    /\ x_values' = Append(x_values, Line[1].v.n)
    /\ y_values' = Append(y_values, Line[2].v)
    /\ pos' = pos + 1
    /\ UNCHANGED <<src, x_value, sample_count, pc, res, complexity, popt,
                   calls, output>>

\* Mutant of ReadLineRaises: a record that does not parse is skipped.
ReadLineSkips ==
    /\ pc = "acquire"
    /\ pos < Len(src)
    /\ \/ ~SplitsInTwo(Line)
       \/ Line[1].kind # "int"
       \/ Line[2].kind = "text"
    /\ pos' = pos + 1
    /\ UNCHANGED <<src, x_value, sample_count, x_values, y_values, pc, res,
                   complexity, popt, calls, output>>

\* One pass of the loop that raises ValueError: at the unpacking, at int(a),
\* or at float(b), when the size has already been appended.
ReadLineRaises ==
    /\ pc = "acquire"
    /\ pos < Len(src)
    /\ \/ /\ \/ ~SplitsInTwo(Line)
             \/ Line[1].kind # "int"
          /\ x_values' = x_values
       \/ /\ SplitsInTwo(Line)
          /\ Line[1].kind = "int"
          /\ Line[2].kind = "text"
          /\ x_values' = Append(x_values, Line[1].v.n)
    /\ pos' = pos + 1
    /\ pc' = "failed"
    /\ UNCHANGED <<src, x_value, sample_count, y_values, res, complexity, popt,
                   calls, output>>

\* complexity = complexity_phase(x_values, y_values, sample_count), and the
\* level-0 message.
Complexity ==
    /\ pc = "acquire"
    /\ pos = Len(src)
    /\ x_values # <<>>
    /\ res' = LeastSquares(x_values, y_values, sample_count)
    /\ complexity' = MinLabel(res')
    /\ calls' = Append(calls, [fn |-> "complexity_phase"])
    /\ output' = Append(output, <<"Algorithm Complexity Estimation", complexity'>>)
    /\ pc' = "regression"
    /\ UNCHANGED <<src, pos, x_value, sample_count, x_values, y_values, popt>>

\* complexity_phase on no samples: np.min of an empty array raises.
ComplexityRaises ==
    /\ pc = "acquire"
    /\ pos = Len(src)
    /\ x_values = <<>>
    /\ calls' = Append(calls, [fn |-> "complexity_phase"])
    /\ pc' = "failed"
    /\ UNCHANGED <<src, pos, x_value, sample_count, x_values, y_values, res,
                   complexity, popt, output>>

\* popt = regression_phase(x_values, y_values, complexity), and the level-0
\* message.
Regression ==
    /\ pc = "regression"
    /\ popt' = FittedParameters(complexity)
    /\ calls' = Append(calls, [fn |-> "regression_phase", label |-> complexity])
    /\ output' = Append(output, <<"Regression Function", complexity>>)
    /\ pc' = "predict"
    /\ UNCHANGED <<src, pos, x_value, sample_count, x_values, y_values, res,
                   complexity>>

\* regression_phase raises: curve_fit fails (the model leaves open for
\* which inputs its optimizer does not converge).
RegressionRaises ==
    /\ pc = "regression"
    /\ calls' = Append(calls, [fn |-> "regression_phase", label |-> complexity])
    /\ pc' = "failed"
    /\ UNCHANGED <<src, pos, x_value, sample_count, x_values, y_values, res,
                   complexity, popt, output>>

\* Mutant of PredictRequested: the truth value of x_value (if x_value:).
PredictRequestedTruthy(xv) == xv # None /\ xv[1] # 0

\* if x_value is not None
PredictRequested(xv) == xv # None

\* The prediction and its level-0 message.
Predict ==
    /\ pc = "predict"
    /\ PredictRequested(x_value)
    /\ calls' = Append(calls, [fn |-> "predict_phase", label |-> complexity,
                               x |-> x_value[1]])
    /\ output' = Append(output, <<"Predicted Execution Time", complexity>>)
    /\ pc' = "done"
    /\ UNCHANGED <<src, pos, x_value, sample_count, x_values, y_values, res,
                   complexity, popt>>

\* cli returns without a prediction.
Return ==
    /\ pc = "predict"
    /\ ~PredictRequested(x_value)
    /\ pc' = "done"
    /\ UNCHANGED <<src, pos, x_value, sample_count, x_values, y_values, res,
                   complexity, popt, calls, output>>

Next ==
    \/ ReadLine
    \/ ReadLineRaises
    \/ Complexity
    \/ ComplexityRaises
    \/ Regression
    \/ RegressionRaises
    \/ Predict
    \/ Return

Spec == Init /\ [][Next]_vars

\* The classifier alone, on every sample set within the bounds.
ClassifierNext ==
    \/ Complexity
    \/ ComplexityRaises

ClassifierSpec == InitAcquired /\ [][ClassifierNext]_vars

----------------------------------------------------------------------------
\* Properties.

\* complexity_phase has returned on the samples in x_values, y_values.
Classified == pc = "regression"

IsNum(a) == a.k = "num"

LabelSet == {ComplexityLabels[i] : i \in 1..Len(ComplexityLabels)}

IndexOf(label) == CHOOSE i \in 1..Len(ComplexityLabels) : ComplexityLabels[i] = label

\* The resampled durations are flat: the normalization divides by zero.
Flat(x, y, samples) ==
    LET yy == Resampled(x, y, samples)
    IN  FMax(yy) = FMin(yy)

\* C1: on every non-empty sample set, flat ones included, complexity_phase
\* returns (it raises only on the empty set), and what it returns is one of
\* the eight labels of its table and a key of REGRESSION_FUNCTIONS.
C1_LabelInCatalog ==
    /\ pc = "failed" => x_values = <<>>
    /\ Classified =>
          /\ complexity \in LabelSet
          /\ complexity \in RegressionLabels
          /\ Cardinality(LabelSet) = 8

\* A flat sample set with two distinct sizes has been classified.
C1_Witness ==
    /\ Classified
    /\ sample_count >= 2
    /\ Len(x_values) >= 2
    /\ IntMin(x_values) # IntMax(x_values)
    /\ Flat(x_values, y_values, sample_count)
    /\ complexity = "O(1)"

\* C2: the scenario sizes 1, 2, 4, 8 with durations 0.5, 1.0, 2.0, 4.0 and
\* sample_count = 4 is classified O(n).
C2_ScenarioIsLinear ==
    ( /\ Classified
      /\ x_values = <<1, 2, 4, 8>>
      /\ y_values = <<Q(1, 2), Q(1, 1), Q(2, 1), Q(4, 1)>>
      /\ sample_count = 4 )
    => complexity = "O(n)"

\* The durations are exactly label's raw function of the sizes, with
\* offset a and slope b; for the shapes with a logarithm only on sizes
\* whose logarithm the model holds exactly. At least three distinct sizes,
\* so that two points do not fit every shape.
IsPowerOfTwo(v) == v \in {1, 2, 4, 8}

HasLog(label) == label \in {"O(log n)", "O(n log n)", "O(n^2 log n)"}

GeneratedBy(label, a, b) ==
    /\ Cardinality({x_values[i] : i \in 1..Len(x_values)}) >= 3
    /\ HasLog(label) => \A i \in 1..Len(x_values) : IsPowerOfTwo(x_values[i])
    /\ \A i \in 1..Len(x_values) :
          y_values[i] = RawFunction(label, x_values[i], a, b)

Offsets == {Q(a, 1) : a \in (0 - MaxDuration)..MaxDuration}

Slopes == {Q(1, 2)} \cup {Q(b, 1) : b \in 1..MaxDuration}

\* C3: durations generated without noise from a catalog shape, with any
\* offset a and slope b > 0, are classified as that shape (on a grid of at
\* least three points, two of which could not tell the shapes apart).
C3_RecoversGeneratingLabel ==
    (Classified /\ sample_count >= 3) =>
        \A label \in LabelSet : \A a \in Offsets : \A b \in Slopes :
            GeneratedBy(label, a, b) => complexity = label

Scaled(c, y) == [i \in 1..Len(y) |-> FMul(c, y[i])]

Scales == {Q(c, 1) : c \in 2..MaxScale}

\* C4: when the resampled durations are not flat, multiplying every
\* duration by a constant c > 0 does not change the label.
C4_ScaleInvariant ==
    (Classified /\ ~Flat(x_values, y_values, sample_count)) =>
        \A c \in Scales :
            ComplexityPhase(x_values, Scaled(c, y_values), sample_count) = complexity

\* A non-flat sample set with a non-zero minimum has been classified as
\* something other than O(1).
C4_Witness ==
    /\ Classified
    /\ ~Flat(x_values, y_values, sample_count)
    /\ FMin(y_values) # Q(0, 1)
    /\ complexity \notin {"O(1)", "O(log n)"}

\* C5: the label returned has the minimal sum of squared residuals (no
\* label has a smaller one), and every label before it in the table order
\* has a strictly larger one.
C5_FirstMinimum ==
    Classified =>
        LET r == IndexOf(complexity)
        IN  /\ \A k \in 1..Len(res) : ~FLess(res[k][2], res[r][2])
            /\ \A k \in 1..(r - 1) : FLess(res[r][2], res[k][2])

\* Two labels tie on a finite minimal residual and the earlier one is
\* returned.
C5_Witness ==
    /\ Classified
    /\ LET r == IndexOf(complexity)
       IN  /\ IsNum(res[r][2])
           /\ \E k \in (r + 1)..Len(res) : res[k][2] = res[r][2]

\* The sample set fails a precondition of the classification.
Degenerate(x) == Len(x) < 2 \/ IntMax(x) = IntMin(x)

\* C6: on fewer than 2 samples, or on sizes that are all equal,
\* complexity_phase returns no label and the run ends in failure.
C6_RejectsDegenerate ==
    (pos = Len(src) /\ pc # "acquire" /\ Degenerate(x_values)) =>
        (pc = "failed" /\ complexity = NoLabel)

\* The samples in ascending order of size (the sizes being distinct).
Rank(x, i) == Cardinality({j \in 1..Len(x) : x[j] < x[i]}) + 1

SortedBy(x, v) ==
    [k \in 1..Len(x) |-> v[CHOOSE i \in 1..Len(x) : Rank(x, i) = k]]

Distinct(x) == Cardinality({x[i] : i \in 1..Len(x)}) = Len(x)

\* C7: with distinct sizes, the label does not depend on the order of the
\* samples: it is the label of the samples sorted by size.
C7_OrderIrrelevant ==
    (Classified /\ Distinct(x_values)) =>
        complexity = ComplexityPhase(SortedBy(x_values, x_values),
                                     SortedBy(x_values, y_values), sample_count)

Fns == [i \in 1..Len(calls) |-> calls[i].fn]

IsPrefix(s, t) == Len(s) <= Len(t) /\ \A i \in 1..Len(s) : s[i] = t[i]

\* C8: the phases are called in the order complexity_phase,
\* regression_phase, predict_phase, each at most once and only after every
\* record has been read; regression_phase gets the label complexity_phase
\* returned; a finished run has called predict_phase exactly when x_value
\* was given (0 included).
C8_StagesInOrder ==
    /\ IsPrefix(Fns, <<"complexity_phase", "regression_phase", "predict_phase">>)
    /\ calls # <<>> => (pos = Len(src) /\ Len(x_values) = Len(src))
    /\ Len(calls) >= 2 => (complexity # NoLabel /\ calls[2].label = complexity)
    /\ Len(calls) = 3 => (x_value # None /\ calls[3].x = x_value[1]
                          /\ calls[3].label = complexity)
    /\ pc = "done" => /\ Len(calls) >= 2
                      /\ Len(calls) = 3 <=> x_value # None

\* A run with -x 0 has finished after calling predict_phase.
C8_Witness ==
    /\ pc = "done"
    /\ x_value = <<0>>
    /\ Len(calls) = 3

\* The record parses: two fields, an integer and a number.
WellFormed(line) ==
    /\ Len(line) = 2
    /\ line[1].kind = "int"
    /\ line[2].kind \in {"int", "float"}

BadLines == {i \in 1..Len(src) : ~WellFormed(src[i])}

\* C9: a failure ends the run. A record that does not parse stops the run
\* at that record, before any phase is called or any message printed; a
\* failed run takes no further step; after a failure of complexity_phase
\* nothing has been printed; after a failure of regression_phase only the
\* complexity message has been printed, there are no parameters, and
\* regression_phase has been called once, with the classifier's label.
C9_FailureIsTerminal ==
    /\ BadLines # {} =>
          /\ \A i \in BadLines : pos <= i
          /\ calls = <<>>
          /\ output = <<>>
          /\ pc \in {"acquire", "failed"}
    /\ (BadLines # {} /\ \E i \in BadLines : pos = i) => pc = "failed"
    /\ pc = "failed" =>
          /\ ~ENABLED Next
          /\ popt = None
          /\ Len(calls) <= 2
          /\ Len(calls) = 0 => (output = <<>> /\ BadLines # {})
          /\ Len(calls) = 1 => (output = <<>> /\ calls[1].fn = "complexity_phase")
          /\ Len(calls) = 2 =>
                /\ calls[2] = [fn |-> "regression_phase", label |-> complexity]
                /\ output = <<<<"Algorithm Complexity Estimation", complexity>>>>

\* A run with -x given has failed in regression_phase.
C9_Witness ==
    /\ pc = "failed"
    /\ Len(calls) = 2
    /\ x_value # None

\* The rescaled shape func(norm_x) / coef of a label at the last index.
ShapeAtEnd(label, samples) == FDiv(Func(label, samples), Coef(label, samples))

\* C10 as stated: for each of the eight labels and sample_count >= 2 the
\* rescaled shape is 1 at the last index.
C10_EveryShapeEndsAtOne ==
    (Classified /\ sample_count >= 2) =>
        \A label \in LabelSet : ShapeAtEnd(label, sample_count) = Q(1, 1)

\* C10 amended: for each label but O(1) and sample_count >= 2 the constant
\* is the shape at the last index, so the rescaled shape is 1 there; the
\* constant of O(1) is 2, and its rescaled shape is 1/2.
C10_NonConstantShapesEndAtOne ==
    (Classified /\ sample_count >= 2) =>
        /\ \A label \in LabelSet \ {"O(1)"} :
              /\ Coef(label, sample_count) = Func(label, sample_count)
              /\ ShapeAtEnd(label, sample_count) = Q(1, 1)
        /\ ShapeAtEnd("O(1)", sample_count) = Q(1, 2)

\* The classifier has used the shapes with the largest sample count.
C10_Witness ==
    /\ Classified
    /\ sample_count = MaxSamples
    /\ complexity # "O(1)"

============================================================================
